---------------------------- MODULE Spec2Model ----------------------------
(***************************************************************************)
(* A model of the Aegis file-integrity monitor:                            *)
(*   - the live aggregator, AegisFileWatcher      (src/live_monitor.py)    *)
(*   - the snapshot comparison, visualize_integrity_check                  *)
(*                                                (src/visualizer.py)      *)
(*   - the baseline store and the init and check flows, save_baseline,     *)
(*     load_baseline, report_integrity_results and main  (src/agent.py)    *)
(*   - the live session, start_live_monitoring and                         *)
(*     create_monitor_display                     (src/live_monitor.py)    *)
(*   - the visualizer's snapshot builder, animate_hashing_process          *)
(*                                                (src/visualizer.py)      *)
(* Each part has a specification of its own (SpecLive, SpecCompare,        *)
(* SpecAgent, SpecMonitor, SpecHash); the variables of the other parts     *)
(* stay at their initial value in it.                                      *)
(***************************************************************************)
EXTENDS Integers, Sequences, FiniteSets, TLC

VARIABLES
    \* ---- live monitor (src/live_monitor.py) ----
    events,        \* AegisFileWatcher.events: the live event log, oldest first
    feed,          \* the stream of notifications the observer delivers (repeated cyclically)
    delivered,     \* number of notifications the observer has dispatched so far
    arrived,       \* history: the arrival numbers of the notifications about regular files
    wpc,           \* position of the notification thread: "idle" | "appended"
    mpc,           \* position of the main thread in start_live_monitoring, "off" without it
    observer,      \* the observer's thread: "running" | "stopping" | "stopped"
    recent_events, \* create_monitor_display: recent_events
    modified_count, \* create_monitor_display: modified_count
    created_count, \* create_monitor_display: created_count
    deleted_count, \* create_monitor_display: deleted_count
    total_events,  \* create_monitor_display: the len(watcher.events) of the statistics
    overlap,       \* number of notifications delivered since the render began
    summary,       \* the count the session summary prints, -1 before
    \* ---- snapshot comparison (src/visualizer.py) ----
    old_baseline,  \* argument old_baseline of visualize_integrity_check
    new_baseline,  \* argument new_baseline of visualize_integrity_check
    cmp,           \* the locals created / deleted / modified once computed
    cpc,           \* "start" | "done"
    files_arg,     \* argument files of animate_hashing_process
    vdisk,         \* the files animate_hashing_process hashes
    file_index,    \* the loop's i: the number of files the loop has gone through
    baseline,      \* the local baseline of animate_hashing_process
    printed_errors, \* the files for which "Error processing ..." was printed
    output_baseline, \* what is stored at output_baseline
    hpc,           \* position of animate_hashing_process: "loop" | "save" | "returned" | "raised"
    \* ---- baseline store and check flow (src/agent.py) ----
    baseline_file, \* what is stored at args.baseline
    disk,          \* the monitored files
    output_writable, \* whether args.output can be opened for writing
    report_file,   \* what is stored at args.output
    apc,           \* position of main
    load_result,   \* how load_baseline ended: "none" | "returned" | "raised"
    raced,         \* the baseline file vanished between the existence test and the open
    files_to_scan, \* main's files_to_scan
    hashed,        \* the files hashed so far
    ran,           \* the steps of the check flow executed so far
    results,       \* main's results
    is_secure,     \* the value report_integrity_results returned
    error,         \* the exception that reached main's handler
    exit_code,     \* the status the process ends with, -1 while running
    mode,          \* the flow main runs: "check" | "init"
    baseline_writable, \* whether args.baseline can be opened for writing
    baseline_before,   \* history: what was stored at args.baseline when main started
    args               \* the flags given: args.init and args.check

renderVars == <<recent_events, modified_count, created_count, deleted_count, total_events>>
monVars  == <<mpc, observer, renderVars, overlap, summary>>
liveVars == <<events, feed, delivered, arrived, wpc, monVars>>
snapVars == <<old_baseline, new_baseline>>
hashVars == <<files_arg, vdisk, file_index, baseline, printed_errors, output_baseline, hpc>>
cmpVars  == <<cmp, cpc, hashVars>>
agentVars == <<baseline_file, disk, output_writable, report_file, apc, load_result,
               raced, files_to_scan, hashed, ran, results, is_secure, error, exit_code,
               mode, baseline_writable, baseline_before, args>>
initVars == <<mode, baseline_writable, baseline_before, args>>
vars     == <<liveVars, snapVars, cmpVars, agentVars>>

(***************************************************************************)
(*                             LIVE AGGREGATOR                             *)
(***************************************************************************)

\* self.max_events = 50
max_events == 50

\* Bounds of the model of the notification stream.
MaxNotifications == 102
MaxCycle == 2
MaxOverlap == 1

\* The paths notifications are about: two regular files and a directory.
LivePaths == {"/w/a.txt", "/w/sub/b.txt"}
LiveDir == "/w/sub"

\* Path(filepath).name
PathName(p) ==
    CASE p = "/w/a.txt"     -> "a.txt"
      [] p = "/w/sub/b.txt" -> "b.txt"
      [] OTHER              -> "sub"

\* The callbacks AegisFileWatcher defines.
Handlers == {"on_modified", "on_created", "on_deleted"}

\* The callbacks the observer's dispatch may call: those of AegisFileWatcher and
\* on_moved, which it inherits from FileSystemEventHandler, where it does nothing.
Callbacks == Handlers \cup {"on_moved"}

\* A notification: the callback invoked and the event object passed to it.
Notifications ==
    [handler : Callbacks, is_directory : {FALSE}, src_path : LivePaths]
    \cup [handler : Callbacks, is_directory : {TRUE}, src_path : {LiveDir}]

\* The kind a callback passes to log_event.
KindOf(h) ==
    CASE h = "on_modified" -> "MODIFIED"
      [] h = "on_created"  -> "CREATED"
      [] OTHER             -> "DELETED"

\* The k-th notification of the stream (k >= 1).
Notif(k) == feed[((k - 1) % Len(feed)) + 1]

LogsAll(n) == TRUE

LogsAnyCallback(n) == ~n.is_directory

\* Whether a notification reaches log_event: its callback is one AegisFileWatcher
\* defines, and there `if not event.is_directory` holds.
Logs(n) == n.handler \in Handlers /\ ~n.is_directory

AppendDebounced(evs, event_type, filepath, now) ==
    IF evs # << >> /\ evs[Len(evs)].type = event_type /\ evs[Len(evs)].path = filepath
    THEN evs
    ELSE Append(evs, [time |-> now, type |-> event_type,
                      file |-> PathName(filepath), path |-> filepath])

\* self.events.append({...}) of log_event; the timestamp is the arrival number.
AppendEvent(evs, event_type, filepath, now) ==
    Append(evs, [time |-> now, type |-> event_type,
                 file |-> PathName(filepath), path |-> filepath])

EvictNewest(evs) ==
    IF Len(evs) > max_events THEN SubSeq(evs, 1, Len(evs) - 1) ELSE evs

NoEvict(evs) == evs

\* if len(self.events) > self.max_events: self.events.pop(0)
Evict(evs) ==
    IF Len(evs) > max_events THEN Tail(evs) ELSE evs

JoinedAlways(obs) == TRUE

\* observer.join() returns once the observer's thread has ended.
Joined(obs) == obs = "stopped"

\* The observer's thread delivers notifications from observer.start() until it ends;
\* the thread is a daemon, it ends with the process.
Delivering ==
    \/ mpc = "off"
    \/ observer \in {"running", "stopping"} /\ mpc \notin {"crashed", "done"}

\* on_modified / on_created / on_deleted up to and including the append of log_event.
Dispatch ==
    /\ wpc = "idle"
    /\ Delivering
    /\ delivered < MaxNotifications
    /\ mpc \in {"off", "start"} \/ overlap < MaxOverlap
    /\ overlap' = IF mpc \in {"off", "start"} THEN overlap ELSE overlap + 1
    /\ delivered' = delivered + 1
    /\ LET n == Notif(delivered + 1) IN
         /\ arrived' = IF n.is_directory \/ n.handler \notin Handlers
                        THEN arrived ELSE Append(arrived, delivered + 1)
         /\ IF Logs(n)
            THEN /\ events' = AppendEvent(events, KindOf(n.handler), n.src_path, delivered + 1)
                 /\ wpc' = "appended"
            ELSE /\ events' = events
                 /\ wpc' = "idle"
    /\ UNCHANGED <<feed, mpc, observer, renderVars, summary, snapVars, cmpVars, agentVars>>

\* The rest of log_event: the capacity test and the eviction.
Trim ==
    /\ wpc = "appended"
    /\ events' = Evict(events)
    /\ wpc' = "idle"
    /\ UNCHANGED <<feed, delivered, arrived, monVars, snapVars, cmpVars, agentVars>>

\* All streams: a cycle of 1..MaxCycle notifications, repeated.
Feeds == UNION {[1..n -> Notifications] : n \in 1..MaxCycle}

\* The parts of the program that a specification leaves out stay as they are here.
HashIdle ==
    /\ files_arg = << >>
    /\ vdisk = << >>
    /\ file_index = 0
    /\ baseline = << >>
    /\ printed_errors = {}
    /\ output_baseline = << >>
    /\ hpc = "off"

CmpIdle ==
    /\ cmp = << >>
    /\ cpc = "off"
    /\ HashIdle

SnapIdle ==
    /\ old_baseline = << >>
    /\ new_baseline = << >>

AgentIdle ==
    /\ baseline_file = << >>
    /\ disk = << >>
    /\ output_writable = FALSE
    /\ report_file = << >>
    /\ apc = "off"
    /\ load_result = "none"
    /\ raced = FALSE
    /\ files_to_scan = << >>
    /\ hashed = {}
    /\ ran = {}
    /\ results = << >>
    /\ is_secure = FALSE
    /\ error = "none"
    /\ exit_code = -1
    /\ mode = "off"
    /\ args = << >>
    /\ baseline_writable = FALSE
    /\ baseline_before = << >>

\* Without start_live_monitoring there is no main thread and no render.
MonitorIdle ==
    /\ mpc = "off"
    /\ observer = "off"
    /\ recent_events = << >>
    /\ modified_count = 0
    /\ created_count = 0
    /\ deleted_count = 0
    /\ total_events = 0
    /\ overlap = 0
    /\ summary = -1

\* AegisFileWatcher.__init__
InitLive ==
    /\ events = << >>
    /\ feed \in Feeds
    /\ delivered = 0
    /\ arrived = << >>
    /\ wpc = "idle"
    /\ MonitorIdle
    /\ SnapIdle /\ CmpIdle /\ AgentIdle

NextLive == Dispatch \/ Trim

SpecLive == InitLive /\ [][NextLive]_vars

(***************************************************************************)
(* start_live_monitoring: the main thread renders the display while the    *)
(* observer's thread delivers notifications to the handler.  Nothing       *)
(* orders the two threads; each statement that touches the list is one     *)
(* step.                                                                   *)
(***************************************************************************)

\* The streams of the monitor: one notification, repeated.
MonitorFeeds == {<<n>> : n \in Notifications}

\* watcher.events[-15:]
LastFifteen(evs) ==
    IF Len(evs) <= 15 THEN evs ELSE SubSeq(evs, Len(evs) - 14, Len(evs))

\* sum(1 for e in watcher.events if e['type'] == kind)
CountOf(evs, kind) == Cardinality({i \in 1..Len(evs) : evs[i].type = kind})

\* The positions of the main thread inside the try block, where a
\* KeyboardInterrupt reaches the handler.
InTry == {"recent", "modified", "created", "deleted", "total", "layout"}

\* The main thread enters the try block and calls create_monitor_display.
BeginRender ==
    /\ mpc = "start"
    /\ mpc' = "recent"
    /\ UNCHANGED <<events, feed, delivered, arrived, wpc, observer, renderVars, overlap,
                   summary, snapVars, cmpVars, agentVars>>

\* recent_events = watcher.events[-15:]
ReadRecent ==
    /\ mpc = "recent"
    /\ recent_events' = LastFifteen(events)
    /\ mpc' = "modified"
    /\ UNCHANGED <<events, feed, delivered, arrived, wpc, observer, modified_count,
                   created_count, deleted_count, total_events, overlap, summary,
                   snapVars, cmpVars, agentVars>>

\* modified_count = sum(1 for e in watcher.events if e['type'] == 'MODIFIED')
CountModified ==
    /\ mpc = "modified"
    /\ modified_count' = CountOf(events, "MODIFIED")
    /\ mpc' = "created"
    /\ UNCHANGED <<events, feed, delivered, arrived, wpc, observer, recent_events,
                   created_count, deleted_count, total_events, overlap, summary,
                   snapVars, cmpVars, agentVars>>

\* created_count = sum(1 for e in watcher.events if e['type'] == 'CREATED')
CountCreated ==
    /\ mpc = "created"
    /\ created_count' = CountOf(events, "CREATED")
    /\ mpc' = "deleted"
    /\ UNCHANGED <<events, feed, delivered, arrived, wpc, observer, recent_events,
                   modified_count, deleted_count, total_events, overlap, summary,
                   snapVars, cmpVars, agentVars>>

\* deleted_count = sum(1 for e in watcher.events if e['type'] == 'DELETED')
CountDeleted ==
    /\ mpc = "deleted"
    /\ deleted_count' = CountOf(events, "DELETED")
    /\ mpc' = "total"
    /\ UNCHANGED <<events, feed, delivered, arrived, wpc, observer, recent_events,
                   modified_count, created_count, total_events, overlap, summary,
                   snapVars, cmpVars, agentVars>>

\* stats_text = f"... {len(watcher.events)} ..."
ReadTotal ==
    /\ mpc = "total"
    /\ total_events' = Len(events)
    /\ mpc' = "layout"
    /\ UNCHANGED <<events, feed, delivered, arrived, wpc, observer, recent_events,
                   modified_count, created_count, deleted_count, overlap, summary,
                   snapVars, cmpVars, agentVars>>

\* layout_content = stats_text + "\n\n" + table.__rich_console__(...): a str and a
\* generator cannot be added, the TypeError is not caught and ends the process.
RenderRaises ==
    /\ mpc = "layout"
    /\ mpc' = "crashed"
    /\ UNCHANGED <<events, feed, delivered, arrived, wpc, observer, renderVars, overlap,
                   summary, snapVars, cmpVars, agentVars>>

\* Ctrl+C inside the try block: except KeyboardInterrupt
Interrupt ==
    /\ mpc \in InTry
    /\ mpc' = "interrupted"
    /\ UNCHANGED <<events, feed, delivered, arrived, wpc, observer, renderVars, overlap,
                   summary, snapVars, cmpVars, agentVars>>

\* Ctrl+C outside the try block is not caught and ends the process.
InterruptOutside ==
    /\ mpc \in {"start", "interrupted", "join", "summary"}
    /\ mpc' = "crashed"
    /\ UNCHANGED <<events, feed, delivered, arrived, wpc, observer, renderVars, overlap,
                   summary, snapVars, cmpVars, agentVars>>

\* observer.stop()
Stop ==
    /\ mpc = "interrupted"
    /\ observer' = "stopping"
    /\ mpc' = "join"
    /\ UNCHANGED <<events, feed, delivered, arrived, wpc, renderVars, overlap,
                   summary, snapVars, cmpVars, agentVars>>

\* The observer's thread sees the stop between two notifications and ends.
ObserverExits ==
    /\ observer = "stopping"
    /\ wpc = "idle"
    /\ mpc # "crashed"
    /\ observer' = "stopped"
    /\ UNCHANGED <<events, feed, delivered, arrived, wpc, mpc, renderVars, overlap,
                   summary, snapVars, cmpVars, agentVars>>

\* observer.join()
Join ==
    /\ mpc = "join"
    /\ Joined(observer)
    /\ mpc' = "summary"
    /\ UNCHANGED <<events, feed, delivered, arrived, wpc, observer, renderVars, overlap,
                   summary, snapVars, cmpVars, agentVars>>

\* console.print(f"Total events captured: {len(event_handler.events)}")
Summary ==
    /\ mpc = "summary"
    /\ summary' = Len(events)
    /\ mpc' = "done"
    /\ UNCHANGED <<events, feed, delivered, arrived, wpc, observer, renderVars, overlap,
                   snapVars, cmpVars, agentVars>>

\* start_live_monitoring after observer.start()
InitMonitor ==
    /\ events = << >>
    /\ feed \in MonitorFeeds
    /\ delivered = 0
    /\ arrived = << >>
    /\ wpc = "idle"
    /\ mpc = "start"
    /\ observer = "running"
    /\ recent_events = << >>
    /\ modified_count = 0
    /\ created_count = 0
    /\ deleted_count = 0
    /\ total_events = 0
    /\ overlap = 0
    /\ summary = -1
    /\ SnapIdle /\ CmpIdle /\ AgentIdle

NextMonitor ==
    \/ Dispatch
    \/ Trim
    \/ BeginRender
    \/ ReadRecent
    \/ CountModified
    \/ CountCreated
    \/ CountDeleted
    \/ ReadTotal
    \/ RenderRaises
    \/ Interrupt
    \/ InterruptOutside
    \/ Stop
    \/ ObserverExits
    \/ Join
    \/ Summary

SpecMonitor == InitMonitor /\ [][NextMonitor]_vars

(***************************************************************************)
(*                           SNAPSHOT COMPARISON                           *)
(***************************************************************************)

\* The monitored paths, in lexicographic order (the order sorted() gives).
PathOrder == <<"a.txt", "b.txt", "c.txt">>
Paths == {PathOrder[i] : i \in 1..Len(PathOrder)}

Hashes == {"hashX", "hashY"}
\* (size, mtime) of a record.
Metas == {<<10, 100>>, <<20, 100>>, <<10, 200>>}

\* A baseline record: {"path": ..., "hash": ..., "size": ..., "mtime": ...}
RecordsOf(p) ==
    {[path |-> p, hash |-> h, size |-> m[1], mtime |-> m[2]] : h \in Hashes, m \in Metas}

\* A snapshot: a mapping from paths to records, each stored under its own path.
SnapshotsOver(P) ==
    UNION {{s \in [D -> UNION {RecordsOf(p) : p \in D}] : \A p \in D : s[p].path = p}
           : D \in SUBSET P}
Snapshots == SnapshotsOver(Paths)

Range(s) == {s[i] : i \in 1..Len(s)}

ReverseSorted(S) ==
    LET up == SelectSeq(PathOrder, LAMBDA p : p \in S)
    IN  [k \in 1..Len(up) |-> up[Len(up) + 1 - k]]

\* sorted(S) for a set (or list without repetitions) of paths.
Sorted(S) == SelectSeq(PathOrder, LAMBDA p : p \in S)

CreatedSwapped(old, new) == Sorted(DOMAIN old \ DOMAIN new)

\* created = sorted(new_keys - old_keys)
CreatedOf(old, new) == Sorted(DOMAIN new \ DOMAIN old)

\* deleted = sorted(old_keys - new_keys)
DeletedOf(old, new) == Sorted(DOMAIN old \ DOMAIN new)

\* dict.get('hash') of the record stored under k, None when there is none.
HashOrNone(snap, k) == IF k \in DOMAIN snap THEN snap[k].hash ELSE "None"

ModifiedOverAllKeys(old, new) ==
    Sorted({k \in DOMAIN old \cup DOMAIN new : HashOrNone(old, k) # HashOrNone(new, k)})

ModifiedByHashOrMtime(old, new) ==
    Sorted({k \in DOMAIN old \cap DOMAIN new :
              old[k].hash # new[k].hash \/ old[k].mtime # new[k].mtime})

ModifiedInverted(old, new) ==
    Sorted({k \in DOMAIN old \cap DOMAIN new : old[k].hash = new[k].hash})

\* modified = sorted([k for k in common_keys
\*                    if old_baseline[k].get('hash') != new_baseline[k].get('hash')])
ModifiedOf(old, new) ==
    LET common_keys == DOMAIN old \cap DOMAIN new
    IN  Sorted({k \in common_keys : old[k].hash # new[k].hash})

\* The comparison of visualize_integrity_check.
Compare(old, new) ==
    [created  |-> CreatedOf(old, new),
     deleted  |-> DeletedOf(old, new),
     modified |-> ModifiedOf(old, new)]

RunCompare ==
    /\ cpc = "start"
    /\ cmp' = Compare(old_baseline, new_baseline)
    /\ cpc' = "done"
    /\ UNCHANGED <<hashVars, snapVars, liveVars, agentVars>>

LiveIdle ==
    /\ events = << >>
    /\ feed = << >>
    /\ delivered = 0
    /\ arrived = << >>
    /\ wpc = "off"
    /\ MonitorIdle

InitCompare ==
    /\ old_baseline \in Snapshots
    /\ new_baseline \in Snapshots
    /\ cmp = << >>
    /\ cpc = "start"
    /\ HashIdle
    /\ LiveIdle /\ AgentIdle

NextCompare == RunCompare

SpecCompare == InitCompare /\ [][NextCompare]_vars

(***************************************************************************)
(*                    BASELINE STORE AND CHECK FLOW                        *)
(***************************************************************************)

\* The files the agent's configuration can name.
AgentPaths == {"a.txt", "b.txt"}

EmptySnapshot == [p \in {} |-> p]

\* What can be stored at args.baseline: nothing, text that is not JSON, a file that
\* cannot be opened, or the JSON text of a mapping (held as the mapping it denotes).
BaselineFiles ==
    [kind : {"missing", "corrupt", "unreadable"}, data : {EmptySnapshot}]
    \cup [kind : {"json"}, data : SnapshotsOver(AgentPaths)]

MissingFile == [kind |-> "missing", data |-> EmptySnapshot]

\* A monitored file: absent, present but not readable, or readable with its content
\* hash, size and mtime.
FileStates ==
    [state : {"absent", "unreadable"}, hash : {"none"}, size : {0}, mtime : {0}]
    \cup {[state |-> "ok", hash |-> h, size |-> m[1], mtime |-> m[2]] : h \in Hashes, m \in Metas}

Disks == [AgentPaths -> FileStates]

\* load_baseline, second part: open(filepath) and json.load(f), with the handlers
\* for FileNotFoundError (return {}) and json.JSONDecodeError (raise Exception);
\* any other OSError of open is not caught there.
OpenAndParseSwallow(file) ==
    CASE file.kind = "json"    -> [outcome |-> "returned", data |-> file.data, error |-> "none"]
      [] file.kind = "missing" -> [outcome |-> "returned", data |-> EmptySnapshot, error |-> "none"]
      [] file.kind = "corrupt" -> [outcome |-> "returned", data |-> EmptySnapshot, error |-> "none"]
      [] OTHER                 -> [outcome |-> "raised", data |-> EmptySnapshot, error |-> "io"]

OpenAndParseNoCatch(file) ==
    CASE file.kind = "json"    -> [outcome |-> "returned", data |-> file.data, error |-> "none"]
      [] file.kind = "missing" -> [outcome |-> "raised", data |-> EmptySnapshot, error |-> "io"]
      [] file.kind = "corrupt" -> [outcome |-> "raised", data |-> EmptySnapshot, error |-> "parse"]
      [] OTHER                 -> [outcome |-> "raised", data |-> EmptySnapshot, error |-> "io"]

OpenAndParse(file) ==
    CASE file.kind = "json"    -> [outcome |-> "returned", data |-> file.data, error |-> "none"]
      [] file.kind = "missing" -> [outcome |-> "returned", data |-> EmptySnapshot, error |-> "none"]
      [] file.kind = "corrupt" -> [outcome |-> "raised", data |-> EmptySnapshot, error |-> "parse"]
      [] OTHER                 -> [outcome |-> "raised", data |-> EmptySnapshot, error |-> "io"]

\* load_baseline(filepath) as one call: the existence test, then the open and parse.
load_baseline(file) ==
    IF file.kind = "missing"
    THEN [outcome |-> "returned", data |-> EmptySnapshot, error |-> "none"]
    ELSE OpenAndParse(file)

\* load_baseline, first part: if not Path(filepath).exists(): return {}
LoadExists ==
    /\ apc = "load_exists"
    /\ IF baseline_file.kind = "missing"
       THEN /\ old_baseline' = EmptySnapshot
            /\ load_result' = "returned"
            /\ apc' = "loaded"
       ELSE /\ apc' = "load_open"
            /\ UNCHANGED <<old_baseline, load_result>>
    /\ UNCHANGED <<baseline_file, disk, output_writable, report_file, raced, files_to_scan,
                   hashed, ran, results, is_secure, error, exit_code, new_baseline,
                   liveVars, cmpVars, initVars>>

\* Another process removes the baseline file after the existence test and before the open.
BaselineVanishes ==
    /\ apc = "load_open"
    /\ baseline_file.kind # "missing"
    /\ baseline_file' = MissingFile
    /\ raced' = TRUE
    /\ UNCHANGED <<disk, output_writable, report_file, apc, load_result, files_to_scan,
                   hashed, ran, results, is_secure, error, exit_code, snapVars,
                   liveVars, cmpVars, initVars>>

\* load_baseline, second part (see OpenAndParse); an exception goes to main's handler.
LoadOpen ==
    /\ apc = "load_open"
    /\ LET r == OpenAndParse(baseline_file) IN
         /\ load_result' = r.outcome
         /\ IF r.outcome = "returned"
            THEN /\ old_baseline' = r.data
                 /\ apc' = "loaded"
                 /\ error' = error
            ELSE /\ old_baseline' = old_baseline
                 /\ apc' = "fatal"
                 /\ error' = r.error
    /\ UNCHANGED <<baseline_file, disk, output_writable, report_file, raced, files_to_scan,
                   hashed, ran, results, is_secure, exit_code, new_baseline,
                   liveVars, cmpVars, initVars>>

NeverRejected(old) == FALSE

\* main: if not old_baseline
BaselineRejected(old) == DOMAIN old = {}

\* main: the test of the loaded baseline, and sys.exit(1) when it is empty.
CheckBaseline ==
    /\ apc = "loaded"
    /\ IF BaselineRejected(old_baseline)
       THEN /\ apc' = "exited"
            /\ exit_code' = 1
       ELSE /\ apc' = "discover"
            /\ exit_code' = exit_code
    /\ UNCHANGED <<baseline_file, disk, output_writable, report_file, load_result, raced,
                   files_to_scan, hashed, ran, results, is_secure, error, snapVars,
                   liveVars, cmpVars, initVars>>

\* config_engine.get_file_list(args.config): any list of configured paths, in order.
get_file_list == {Sorted(S) : S \in SUBSET AgentPaths}

\* main: the discovery phase of the check flow.
Discover ==
    /\ apc = "discover"
    /\ files_to_scan' \in get_file_list
    /\ ran' = ran \cup {"discovery"}
    /\ apc' = "snapshot"
    /\ UNCHANGED <<baseline_file, disk, output_writable, report_file, load_result, raced,
                   hashed, results, is_secure, error, exit_code, snapVars,
                   liveVars, cmpVars, initVars>>

\* get_file_list raises (the configuration cannot be read).
DiscoverFails ==
    /\ apc = "discover"
    /\ ran' = ran \cup {"discovery"}
    /\ apc' = "fatal"
    /\ error' = "config"
    /\ UNCHANGED <<baseline_file, disk, output_writable, report_file, load_result, raced,
                   files_to_scan, hashed, results, is_secure, exit_code, snapVars,
                   liveVars, cmpVars, initVars>>

\* The files of a list that come before its first file that cannot be read.
RECURSIVE ReadablePrefix(_, _)
ReadablePrefix(files, d) ==
    IF files = << >> \/ d[Head(files)].state # "ok" THEN {}
    ELSE {Head(files)} \cup ReadablePrefix(Tail(files), d)

CreateBaselineSkipping(files, d) ==
    [outcome |-> "returned",
     data |-> [p \in {q \in Range(files) : d[q].state = "ok"} |->
                 [path |-> p, hash |-> d[p].hash, size |-> d[p].size, mtime |-> d[p].mtime]]]

\* baseline_engine.create_baseline(files) and asdict: one record per file, or the
\* error of the first file that cannot be stat'd, opened or read.
create_baseline(files, d) ==
    IF \A p \in Range(files) : d[p].state = "ok"
    THEN [outcome |-> "returned",
          data |-> [p \in Range(files) |->
                      [path |-> p, hash |-> d[p].hash, size |-> d[p].size, mtime |-> d[p].mtime]]]
    ELSE [outcome |-> "raised", data |-> EmptySnapshot]

\* main: the fresh snapshot of the check flow.
CreateSnapshot ==
    /\ apc = "snapshot"
    /\ LET r == create_baseline(files_to_scan, disk) IN
         /\ hashed' = ReadablePrefix(files_to_scan, disk)
         /\ ran' = ran \cup {"hash"}
         /\ IF r.outcome = "returned"
            THEN /\ new_baseline' = r.data
                 /\ apc' = "compare"
                 /\ error' = error
            ELSE /\ new_baseline' = new_baseline
                 /\ apc' = "fatal"
                 /\ error' = "io"
    /\ UNCHANGED <<baseline_file, disk, output_writable, report_file, load_result, raced,
                   files_to_scan, results, is_secure, exit_code, old_baseline,
                   liveVars, cmpVars, initVars>>

\* integrity_engine.compare_baselines(old, new)
compare_baselines(old, new) ==
    [MODIFIED |-> Sorted({k \in DOMAIN old \cap DOMAIN new : old[k].hash # new[k].hash}),
     CREATED  |-> Sorted(DOMAIN new \ DOMAIN old),
     DELETED  |-> Sorted(DOMAIN old \ DOMAIN new)]

\* main: the integrity comparison.
CompareStep ==
    /\ apc = "compare"
    /\ results' = compare_baselines(old_baseline, new_baseline)
    /\ ran' = ran \cup {"compare"}
    /\ apc' = "report"
    /\ UNCHANGED <<baseline_file, disk, output_writable, report_file, load_result, raced,
                   files_to_scan, hashed, is_secure, error, exit_code, snapVars,
                   liveVars, cmpVars, initVars>>

SecureIgnoringDeleted(res) ==
    Len(res.MODIFIED) + Len(res.CREATED) = 0

\* report_integrity_results: total_changes == 0, the value returned.
SecureResult(res) ==
    LET total_changes == Len(res.MODIFIED) + Len(res.CREATED) + Len(res.DELETED)
    IN  total_changes = 0

\* main: sys.exit(0 if is_secure else 1)
ExitStatus(secure) == IF secure THEN 0 ELSE 1

NoReport == [kind |-> "none", data |-> << >>]

\* Whether the message main's handler prints for an exception names the file that
\* could not be written: save_baseline puts filepath in its Exception ("write");
\* the OSError of a failed open carries the file name ("open_denied"); the OSError
\* of a failed write (no space left on device) carries none ("no_space").
NamesTarget(err) == err \in {"write", "open_denied"}

\* The errors of writing the baseline or the report.
WriteErrors == {"write", "open_denied", "no_space"}

ReportDumpChangesOnly(res) ==
    IF Len(res.MODIFIED) + Len(res.CREATED) + Len(res.DELETED) = 0
    THEN <<"{", "}">>
    ELSE <<"{", "MODIFIED", "[">> \o res.MODIFIED \o <<"]", "CREATED", "[">> \o res.CREATED
         \o <<"]", "DELETED", "[">> \o res.DELETED \o <<"]", "}">>

\* json.dump(results, f, indent=2): the text of the report, as a list of tokens: the
\* object's three keys, each followed by the array of its paths.
ReportDump(res) ==
    <<"{", "MODIFIED", "[">> \o res.MODIFIED \o <<"]", "CREATED", "[">> \o res.CREATED
    \o <<"]", "DELETED", "[">> \o res.DELETED \o <<"]", "}">>

\* What is stored at args.output after a write that stopped early.
PartialReport == [kind |-> "partial", data |-> << >>]

\* report_integrity_results(results, args.output): the report is written first, then
\* the outcome is returned; an error of open goes to main's handler.
Report ==
    /\ apc = "report"
    /\ IF output_writable
       THEN /\ report_file' = [kind |-> "json", data |-> ReportDump(results)]
            /\ is_secure' = SecureResult(results)
            /\ ran' = ran \cup {"report"}
            /\ apc' = "exit"
            /\ error' = error
       ELSE /\ apc' = "fatal"
            /\ error' = "open_denied"
            /\ UNCHANGED <<report_file, is_secure, ran>>
    /\ UNCHANGED <<baseline_file, disk, output_writable, load_result, raced, files_to_scan,
                   hashed, results, exit_code, snapVars, liveVars, cmpVars, initVars>>

\* report_integrity_results: json.dump(results, f, indent=2) fails part-way (the disk
\* is full); nothing catches the OSError before main's handler.
ReportWriteFails ==
    /\ apc = "report"
    /\ output_writable
    /\ report_file' = PartialReport
    /\ apc' = "fatal"
    /\ error' = "no_space"
    /\ UNCHANGED <<baseline_file, disk, output_writable, load_result, raced, files_to_scan,
                   hashed, ran, results, is_secure, exit_code, snapVars, liveVars, cmpVars,
                   initVars>>

\* main: sys.exit(0 if is_secure else 1)
Exit ==
    /\ apc = "exit"
    /\ exit_code' = ExitStatus(is_secure)
    /\ apc' = "exited"
    /\ UNCHANGED <<baseline_file, disk, output_writable, report_file, load_result, raced,
                   files_to_scan, hashed, ran, results, is_secure, error, snapVars,
                   liveVars, cmpVars, initVars>>

\* main: except Exception as e: ... sys.exit(1)
Fatal ==
    /\ apc = "fatal"
    /\ exit_code' = 1
    /\ apc' = "exited"
    /\ UNCHANGED <<baseline_file, disk, output_writable, report_file, load_result, raced,
                   files_to_scan, hashed, ran, results, is_secure, error, snapVars,
                   liveVars, cmpVars, initVars>>

(***************************************************************************)
(* The baseline as text.  The JSON text json.dump writes is modelled as a   *)
(* list of tokens: "{", then per key the key, "{", the four field names     *)
(* each followed by its value, "}", and a last "}".  Numbers are written in *)
(* decimal, the float mtime with its fraction.                              *)
(***************************************************************************)

\* The text of an integer (size).
IntText(n) ==
    CASE n = 0  -> "0"
      [] n = 10 -> "10"
      [] n = 20 -> "20"
      [] n = 100 -> "100"
      [] n = 200 -> "200"
      [] OTHER  -> "NaN"

\* The text of a float (mtime): repr() keeps the fraction.
FloatText(n) ==
    CASE n = 0   -> "0.0"
      [] n = 100 -> "100.0"
      [] n = 200 -> "200.0"
      [] n = 10  -> "10.0"
      [] n = 20  -> "20.0"
      [] OTHER   -> "NaN"

\* The number a numeric text denotes.
NumberOf(t) ==
    CASE t \in {"0", "0.0"}     -> 0
      [] t \in {"10", "10.0"}   -> 10
      [] t \in {"20", "20.0"}   -> 20
      [] t \in {"100", "100.0"} -> 100
      [] t \in {"200", "200.0"} -> 200
      [] OTHER                  -> -1

\* serializable_data = {path: asdict(entry) for path, entry in data.items()}
Serializable(data) ==
    [p \in DOMAIN data |->
       [path |-> data[p].path, hash |-> data[p].hash,
        size |-> data[p].size, mtime |-> data[p].mtime]]

RECURSIVE DumpEntries(_, _)
DumpEntries(m, keys) ==
    IF keys = << >> THEN << >>
    ELSE LET k == Head(keys) IN
         <<k, "{", "path", m[k].path, "hash", m[k].hash,
           "size", IntText(m[k].size), "mtime", FloatText(m[k].mtime), "}">>
         \o DumpEntries(m, Tail(keys))

RECURSIVE DumpEntriesSwapped(_, _)
DumpEntriesSwapped(m, keys) ==
    IF keys = << >> THEN << >>
    ELSE LET k == Head(keys) IN
         <<k, "{", "path", m[k].path, "hash", m[k].hash,
           "size", IntText(m[k].mtime), "mtime", FloatText(m[k].size), "}">>
         \o DumpEntriesSwapped(m, Tail(keys))

JsonDumpSwapped(m) == <<"{">> \o DumpEntriesSwapped(m, Sorted(DOMAIN m)) \o <<"}">>

\* json.dump(serializable_data, f, indent=4): the keys in the order of the mapping.
JsonDump(m) == <<"{">> \o DumpEntries(m, Sorted(DOMAIN m)) \o <<"}">>

\* The length of the text of one entry.
EntryLen == 11

\* json.load from token i on, acc being the entries read so far: the text must be
\* whole entries up to a closing "}" that ends it.
RECURSIVE LoadEntries(_, _, _)
LoadEntries(text, i, acc) ==
    IF i > Len(text) THEN [ok |-> FALSE, data |-> EmptySnapshot]
    ELSE IF text[i] = "}" THEN [ok |-> i = Len(text), data |-> IF i = Len(text) THEN acc ELSE EmptySnapshot]
    ELSE IF /\ i + EntryLen - 1 <= Len(text)
            /\ text[i + 1] = "{"
            /\ text[i + 2] = "path"
            /\ text[i + 4] = "hash"
            /\ text[i + 6] = "size"
            /\ text[i + 8] = "mtime"
            /\ text[i + 10] = "}"
         THEN LoadEntries(text, i + EntryLen,
                          (text[i] :> [path |-> text[i + 3], hash |-> text[i + 5],
                                       size |-> NumberOf(text[i + 7]),
                                       mtime |-> NumberOf(text[i + 9])]) @@ acc)
         ELSE [ok |-> FALSE, data |-> EmptySnapshot]

\* A parser that gives what it has read when the text ends early.
RECURSIVE LoadEntriesLenient(_, _, _)
LoadEntriesLenient(text, i, acc) ==
    IF i > Len(text) \/ text[i] = "}" \/ i + EntryLen - 1 > Len(text)
    THEN [ok |-> TRUE, data |-> acc]
    ELSE LoadEntriesLenient(text, i + EntryLen,
                            (text[i] :> [path |-> text[i + 3], hash |-> text[i + 5],
                                         size |-> NumberOf(text[i + 7]),
                                         mtime |-> NumberOf(text[i + 9])]) @@ acc)

JsonLoadLenient(text) == LoadEntriesLenient(text, 2, EmptySnapshot)

\* json.load(f): the mapping the text denotes, or json.JSONDecodeError (ok = FALSE).
JsonLoad(text) ==
    IF text = << >> \/ text[1] # "{" THEN [ok |-> FALSE, data |-> EmptySnapshot]
    ELSE LoadEntries(text, 2, EmptySnapshot)

\* The file a text makes at args.baseline: JSON of a mapping when json.load accepts
\* it, corrupt otherwise.
FileOf(text) ==
    LET r == JsonLoad(text) IN
      IF r.ok THEN [kind |-> "json", data |-> r.data]
      ELSE [kind |-> "corrupt", data |-> EmptySnapshot]

\* The texts a write of text can leave behind when it stops early.
Prefixes(text) == {SubSeq(text, 1, n) : n \in 0..(Len(text) - 1)}

(***************************************************************************)
(*                               INIT FLOW                                 *)
(***************************************************************************)

\* main (init flow): the discovery phase, and sys.exit(1) when no file is found.
InitDiscover ==
    /\ apc = "i_discover"
    /\ files_to_scan' \in get_file_list
    /\ ran' = ran \cup {"discovery"}
    /\ IF files_to_scan' = << >>
       THEN /\ apc' = "exited"
            /\ exit_code' = 1
       ELSE /\ apc' = "i_snapshot"
            /\ exit_code' = exit_code
    /\ UNCHANGED <<baseline_file, disk, output_writable, report_file, load_result, raced,
                   hashed, results, is_secure, error, snapVars,
                   liveVars, cmpVars, initVars>>

\* get_file_list raises in the init flow.
InitDiscoverFails ==
    /\ apc = "i_discover"
    /\ ran' = ran \cup {"discovery"}
    /\ apc' = "i_fatal"
    /\ error' = "config"
    /\ UNCHANGED <<baseline_file, disk, output_writable, report_file, load_result, raced,
                   files_to_scan, hashed, results, is_secure, exit_code, snapVars,
                   liveVars, cmpVars, initVars>>

\* main (init flow): baseline = baseline_engine.create_baseline(files_to_scan)
InitSnapshot ==
    /\ apc = "i_snapshot"
    /\ LET r == create_baseline(files_to_scan, disk) IN
         /\ hashed' = ReadablePrefix(files_to_scan, disk)
         /\ ran' = ran \cup {"hash"}
         /\ IF r.outcome = "returned"
            THEN /\ new_baseline' = r.data
                 /\ apc' = "i_save"
                 /\ error' = error
            ELSE /\ new_baseline' = new_baseline
                 /\ apc' = "i_fatal"
                 /\ error' = "io"
    /\ UNCHANGED <<baseline_file, disk, output_writable, report_file, load_result, raced,
                   files_to_scan, results, is_secure, exit_code, old_baseline,
                   liveVars, cmpVars, initVars>>

\* save_baseline: open(filepath, 'w') creates or empties the file; an IOError is
\* raised again as Exception("Failed to write baseline to <filepath>: ...").
SaveOpen ==
    /\ apc = "i_save"
    /\ ran' = ran \cup {"save"}
    /\ IF baseline_writable
       THEN /\ baseline_file' = FileOf(<< >>)
            /\ apc' = "i_writing"
            /\ error' = error
       ELSE /\ baseline_file' = baseline_file
            /\ apc' = "i_fatal"
            /\ error' = "write"
    /\ UNCHANGED <<disk, output_writable, report_file, load_result, raced, files_to_scan,
                   hashed, results, is_secure, exit_code, snapVars,
                   liveVars, cmpVars, initVars>>

\* save_baseline: json.dump writes the whole text and the file is closed.
SaveWrite ==
    /\ apc = "i_writing"
    /\ baseline_file' = FileOf(JsonDump(Serializable(new_baseline)))
    /\ apc' = "i_saved"
    /\ UNCHANGED <<disk, output_writable, report_file, load_result, raced, files_to_scan,
                   hashed, ran, results, is_secure, error, exit_code, snapVars,
                   liveVars, cmpVars, initVars>>

\* save_baseline: a write fails part-way (the disk is full); the IOError is raised
\* again as Exception and the file keeps what was written.
SaveWriteFails ==
    /\ apc = "i_writing"
    /\ \E t \in Prefixes(JsonDump(Serializable(new_baseline))) : baseline_file' = FileOf(t)
    /\ apc' = "i_fatal"
    /\ error' = "write"
    /\ UNCHANGED <<disk, output_writable, report_file, load_result, raced, files_to_scan,
                   hashed, ran, results, is_secure, exit_code, snapVars,
                   liveVars, cmpVars, initVars>>

\* The process is killed while save_baseline writes: the file keeps what was written,
\* which may be all of the text.
SaveCrash ==
    /\ apc = "i_writing"
    /\ LET text == JsonDump(Serializable(new_baseline)) IN
         \E t \in Prefixes(text) \cup {text} : baseline_file' = FileOf(t)
    /\ apc' = "crashed"
    /\ UNCHANGED <<disk, output_writable, report_file, load_result, raced, files_to_scan,
                   hashed, ran, results, is_secure, error, exit_code, snapVars,
                   liveVars, cmpVars, initVars>>

\* main (init flow): the success summary; main returns and the process ends with 0.
InitFinish ==
    /\ apc = "i_saved"
    /\ exit_code' = 0
    /\ apc' = "exited"
    /\ UNCHANGED <<baseline_file, disk, output_writable, report_file, load_result, raced,
                   files_to_scan, hashed, ran, results, is_secure, error, snapVars,
                   liveVars, cmpVars, initVars>>

\* main (init flow): except Exception as e: ... sys.exit(1)
InitFatal ==
    /\ apc = "i_fatal"
    /\ exit_code' = 1
    /\ apc' = "exited"
    /\ UNCHANGED <<baseline_file, disk, output_writable, report_file, load_result, raced,
                   files_to_scan, hashed, ran, results, is_secure, error, snapVars,
                   liveVars, cmpVars, initVars>>

\* The command lines that start a flow: --init, --check or both.
ArgSets ==
    {[init |-> TRUE, check |-> FALSE], [init |-> FALSE, check |-> TRUE],
     [init |-> TRUE, check |-> TRUE]}

FlowCheckFirst(a) == IF a.check THEN "check" ELSE "init"

\* main: if args.init: ... elif args.check: ...
FlowOf(a) == IF a.init THEN "init" ELSE "check"

\* main after the arguments are parsed: with --check at the call of load_baseline,
\* with --init at the discovery phase.
InitAgent ==
    /\ args \in ArgSets
    /\ mode = FlowOf(args)
    /\ baseline_file \in BaselineFiles
    /\ baseline_before = baseline_file
    /\ disk \in Disks
    /\ output_writable \in (IF mode = "check" THEN BOOLEAN ELSE {TRUE})
    /\ baseline_writable \in (IF mode = "init" THEN BOOLEAN ELSE {TRUE})
    /\ report_file = NoReport
    /\ apc = (IF mode = "check" THEN "load_exists" ELSE "i_discover")
    /\ load_result = "none"
    /\ raced = FALSE
    /\ files_to_scan = << >>
    /\ hashed = {}
    /\ ran = {}
    /\ results = [MODIFIED |-> << >>, CREATED |-> << >>, DELETED |-> << >>]
    /\ is_secure = FALSE
    /\ error = "none"
    /\ exit_code = -1
    /\ old_baseline = EmptySnapshot
    /\ new_baseline = EmptySnapshot
    /\ LiveIdle /\ CmpIdle

NextAgent ==
    \/ LoadExists
    \/ BaselineVanishes
    \/ LoadOpen
    \/ CheckBaseline
    \/ Discover
    \/ DiscoverFails
    \/ CreateSnapshot
    \/ CompareStep
    \/ Report
    \/ ReportWriteFails
    \/ Exit
    \/ Fatal
    \/ InitDiscover
    \/ InitDiscoverFails
    \/ InitSnapshot
    \/ SaveOpen
    \/ SaveWrite
    \/ SaveWriteFails
    \/ SaveCrash
    \/ InitFinish
    \/ InitFatal

SpecAgent == InitAgent /\ [][NextAgent]_vars

(***************************************************************************)
(*                 THE VISUALIZER'S SNAPSHOT BUILDER                       *)
(***************************************************************************)

\* The longest list of files the builder is given.
MaxFiles == 3

\* The lists of files the builder may be given: paths in any order, repeated or not.
FileLists == UNION {[1..n -> AgentPaths] : n \in 0..MaxFiles}

HashRecordUnkeyed(p, d) ==
    [path |-> "a.txt", hash |-> d[p].hash, size |-> d[p].size, mtime |-> d[p].mtime]

\* The record stored for a file that was stat'd and read.
HashRecord(p, d) ==
    [path |-> p, hash |-> d[p].hash, size |-> d[p].size, mtime |-> d[p].mtime]

\* One iteration of the loop whose try block ends normally: the file is stat'd,
\* read and hashed and its record stored under its path.
HashFile ==
    /\ hpc = "loop"
    /\ file_index < Len(files_arg)
    /\ vdisk[files_arg[file_index + 1]].state = "ok"
    /\ baseline' = (files_arg[file_index + 1] :> HashRecord(files_arg[file_index + 1], vdisk)) @@ baseline
    /\ file_index' = file_index + 1
    /\ UNCHANGED <<files_arg, vdisk, printed_errors, output_baseline, hpc, cmp, cpc,
                   snapVars, liveVars, agentVars>>

\* One iteration in which os.stat, open or read raises:
\* except Exception as e: console.print(...); continue
HashFileFails ==
    /\ hpc = "loop"
    /\ file_index < Len(files_arg)
    /\ vdisk[files_arg[file_index + 1]].state # "ok"
    /\ printed_errors' = printed_errors \cup {files_arg[file_index + 1]}
    /\ file_index' = file_index + 1
    /\ UNCHANGED <<files_arg, vdisk, baseline, output_baseline, hpc, cmp, cpc,
                   snapVars, liveVars, agentVars>>

\* The loop is over.
LoopEnds ==
    /\ hpc = "loop"
    /\ file_index = Len(files_arg)
    /\ hpc' = "save"
    /\ UNCHANGED <<files_arg, vdisk, file_index, baseline, printed_errors, output_baseline, cmp, cpc,
                   snapVars, liveVars, agentVars>>

\* with open(output_baseline, 'w') as f: json.dump(baseline, f, indent=2), and the
\* summary and the return that follow.
SaveHashed ==
    /\ hpc = "save"
    /\ output_baseline' = FileOf(JsonDump(baseline))
    /\ hpc' = "returned"
    /\ UNCHANGED <<files_arg, vdisk, file_index, baseline, printed_errors, cmp, cpc,
                   snapVars, liveVars, agentVars>>

\* open(output_baseline, 'w') raises; the error goes to the caller.
SaveHashedFails ==
    /\ hpc = "save"
    /\ hpc' = "raised"
    /\ UNCHANGED <<files_arg, vdisk, file_index, baseline, printed_errors, output_baseline, cmp, cpc,
                   snapVars, liveVars, agentVars>>

\* animate_hashing_process(files_arg, output_baseline) at the loop.
InitHash ==
    /\ files_arg \in FileLists
    /\ vdisk \in Disks
    /\ file_index = 0
    /\ baseline = EmptySnapshot
    /\ printed_errors = {}
    /\ output_baseline = NoReport
    /\ hpc = "loop"
    /\ cmp = << >>
    /\ cpc = "off"
    /\ SnapIdle /\ LiveIdle /\ AgentIdle

NextHash ==
    \/ HashFile
    \/ HashFileFails
    \/ LoopEnds
    \/ SaveHashed
    \/ SaveHashedFails

SpecHash == InitHash /\ [][NextHash]_vars

(***************************************************************************)
(*                               PROPERTIES                                *)
(***************************************************************************)

\* How many of the notifications about regular files dispatched so far the log keeps.
Kept == IF Len(arrived) < max_events THEN Len(arrived) ELSE max_events

\* C1: whenever the notification thread is between notifications (every log_event
\* begun has run to completion), the event log holds at most max_events = 50 entries.
C1_LogBounded ==
    wpc = "idle" => Len(events) <= max_events

\* More than 50 regular-file notifications have been processed and the log is full.
C1_EvictedAtCapacity ==
    /\ wpc = "idle"
    /\ Len(arrived) > max_events
    /\ Len(events) = max_events

\* C2: after k regular-file notifications have been processed the log holds exactly
\* min(k, 50) entries, and entry i is the i-th of the min(k, 50) most recent
\* notifications (same arrival number, kind and path), oldest first.
C2_MostRecentKept ==
    wpc = "idle" =>
        /\ Len(events) = Kept
        /\ \A i \in 1..Kept :
             LET n == arrived[Len(arrived) - Kept + i] IN
               /\ events[i].time = n
               /\ events[i].type = KindOf(Notif(n).handler)
               /\ events[i].path = Notif(n).src_path

\* Scenario E: 60 notifications, all about regular files, leave #11..#60.
C2_SixtyLeaveElevenToSixty ==
    /\ wpc = "idle"
    /\ delivered = 60
    /\ Len(arrived) = 60
    /\ Len(events) = 50
    /\ events[1].time = 11
    /\ events[50].time = 60

\* The three results of the comparison, as sets.
CreatedSet  == Range(cmp.created)
DeletedSet  == Range(cmp.deleted)
ModifiedSet == Range(cmp.modified)
OldKeys == DOMAIN old_baseline
NewKeys == DOMAIN new_baseline

\* C3: the comparison yields Created = keys(new) \ keys(old),
\* Deleted = keys(old) \ keys(new) and Modified = the common keys whose hashes differ.
C3_CompareSets ==
    cpc = "done" =>
        /\ CreatedSet = NewKeys \ OldKeys
        /\ DeletedSet = OldKeys \ NewKeys
        /\ ModifiedSet = {p \in OldKeys \cap NewKeys :
                            old_baseline[p].hash # new_baseline[p].hash}

\* Scenario C: baseline {a.txt} rescanned as {b.txt}.
C3_ScenarioC ==
    /\ cpc = "done"
    /\ OldKeys = {"a.txt"}
    /\ NewKeys = {"b.txt"}
    /\ cmp.deleted = <<"a.txt">>
    /\ cmp.created = <<"b.txt">>
    /\ cmp.modified = << >>

\* The classes of the comparison a path falls in, Unchanged being the paths of either
\* snapshot that are in none of the three results.
ClassesOf(p) ==
    {c \in {"Modified", "Created", "Deleted", "Unchanged"} :
        \/ c = "Modified" /\ p \in ModifiedSet
        \/ c = "Created" /\ p \in CreatedSet
        \/ c = "Deleted" /\ p \in DeletedSet
        \/ c = "Unchanged" /\ p \in (OldKeys \cup NewKeys)
                           /\ p \notin ModifiedSet \cup CreatedSet \cup DeletedSet}

\* C4: Modified, Created and Deleted are pairwise disjoint, every path of either
\* snapshot is in exactly one of Modified, Created, Deleted, Unchanged, and no other
\* path is in any of them.
C4_Partition ==
    cpc = "done" =>
        /\ ModifiedSet \cap CreatedSet = {}
        /\ ModifiedSet \cap DeletedSet = {}
        /\ CreatedSet \cap DeletedSet = {}
        /\ \A p \in OldKeys \cup NewKeys : Cardinality(ClassesOf(p)) = 1
        /\ ModifiedSet \cup CreatedSet \cup DeletedSet \subseteq OldKeys \cup NewKeys

\* A comparison in which each of the three results is non-empty.
C4_AllThreeClasses ==
    /\ cpc = "done"
    /\ ModifiedSet # {}
    /\ CreatedSet # {}
    /\ DeletedSet # {}

\* A snapshot with the size and mtime of the record of p replaced.
WithMeta(snap, p, m) == [snap EXCEPT ![p].size = m[1], ![p].mtime = m[2]]

\* C5: a path in both snapshots with equal hashes is in none of the three results,
\* and replacing the size and mtime of any one record, in either snapshot, leaves the
\* result of the comparison as it is.
C5_OnlyHashCounts ==
    cpc = "done" =>
        /\ \A p \in OldKeys \cap NewKeys :
             old_baseline[p].hash = new_baseline[p].hash
                => p \notin ModifiedSet \cup CreatedSet \cup DeletedSet
        /\ \A p \in NewKeys : \A m \in Metas :
             Compare(old_baseline, WithMeta(new_baseline, p, m)) = cmp
        /\ \A p \in OldKeys : \A m \in Metas :
             Compare(WithMeta(old_baseline, p, m), new_baseline) = cmp

\* A file whose size and mtime both changed while its hash did not, reported nowhere.
C5_TouchedButUnreported ==
    /\ cpc = "done"
    /\ \E p \in OldKeys \cap NewKeys :
         /\ old_baseline[p].hash = new_baseline[p].hash
         /\ old_baseline[p].size # new_baseline[p].size
         /\ old_baseline[p].mtime # new_baseline[p].mtime
         /\ p \notin ModifiedSet \cup CreatedSet \cup DeletedSet

\* C6: comparing a snapshot with itself gives three empty results.
C6_SelfCompareEmpty ==
    (cpc = "done" /\ old_baseline = new_baseline) =>
        /\ cmp.modified = << >>
        /\ cmp.created = << >>
        /\ cmp.deleted = << >>

\* A snapshot of all three files compared with itself.
C6_SelfCompared ==
    /\ cpc = "done"
    /\ old_baseline = new_baseline
    /\ OldKeys = Paths
    /\ cmp.modified = << >>

\* C7: when no file is at the baseline path as load_baseline looks for it (at the
\* existence test, or at the open because it vanished in between), load_baseline
\* returns the empty mapping and no exception reaches main's handler.
C7_MissingLoadsEmpty ==
    (load_result # "none" /\ baseline_file.kind = "missing") =>
        /\ load_result = "returned"
        /\ DOMAIN old_baseline = {}
        /\ error = "none"
        /\ apc # "fatal"

\* The file vanished after the existence test and load_baseline returned {}.
C7_VanishedLoadsEmpty ==
    /\ raced
    /\ load_result = "returned"
    /\ DOMAIN old_baseline = {}

\* C8: when the baseline file holds text that cannot be parsed, load_baseline raises
\* (the parse error reaches main's handler, the run ends with status 1) and main never
\* gets a snapshot from it; load_baseline never raises for a missing file, so the two
\* outcomes differ.
C8_CorruptRaises ==
    /\ (load_result # "none" /\ baseline_file.kind = "corrupt") =>
          /\ load_result = "raised"
          /\ error = "parse"
          /\ apc \in {"fatal", "exited"}
          /\ ran = {}
          /\ (apc = "exited" => exit_code = 1)
    /\ load_result = "raised" => baseline_file.kind # "missing"

\* A run on a corrupt baseline file that ended in main's handler.
C8_CorruptRunEnded ==
    /\ baseline_file.kind = "corrupt"
    /\ load_result = "raised"
    /\ apc = "exited"
    /\ exit_code = 1

\* C9: when load_baseline returned an empty baseline the check flow goes from the
\* test of the baseline straight to sys.exit(1): discovery does not run, no file is
\* hashed, nothing is compared and no report is written.
C9_EmptyBaselineRejected ==
    (load_result = "returned" /\ DOMAIN old_baseline = {}) =>
        /\ apc \in {"loaded", "exited"}
        /\ ran = {}
        /\ hashed = {}
        /\ report_file = NoReport
        /\ (apc = "exited" => exit_code = 1)

\* A run on a baseline file that is present and holds no records, rejected.
C9_EmptyFileRejected ==
    /\ baseline_file.kind = "json"
    /\ DOMAIN baseline_file.data = {}
    /\ load_result = "returned"
    /\ apc = "exited"
    /\ exit_code = 1

\* The Delta of the check flow is empty.
DeltaEmpty ==
    /\ results.MODIFIED = << >>
    /\ results.CREATED = << >>
    /\ results.DELETED = << >>

\* C10: a check that ran to the end of report_integrity_results returns True and
\* exits with status 0 exactly when the Delta is empty, and returns False and exits
\* with a non-zero status exactly when one of the three lists is non-empty.
C10_SecureIffEmptyDelta ==
    /\ (apc \in {"exit", "exited"} /\ "report" \in ran) => (is_secure <=> DeltaEmpty)
    /\ (apc = "exited" /\ "report" \in ran) =>
          /\ exit_code = 0 <=> DeltaEmpty
          /\ exit_code # 0 <=> ~DeltaEmpty

\* Scenario A: a check of unchanged files ended secure.
C10_SecureRun ==
    /\ apc = "exited"
    /\ "report" \in ran
    /\ DOMAIN old_baseline # {}
    /\ DeltaEmpty
    /\ is_secure
    /\ exit_code = 0


\* A run that ended without reaching its normal end: neither the report of the
\* check flow nor the save of the init flow was completed.
FailedRun ==
    /\ apc = "exited"
    /\ "report" \notin ran
    /\ ~(mode = "init" /\ "save" \in ran /\ error = "none")

\* The outcome of a check that found a breach.
BreachOutcome == ExitStatus(FALSE)

\* C11: a run that fails (a fatal error of init or check, or check without a
\* baseline) ends with a non-zero outcome different from the outcome of a check
\* that found a breach.
C11_FailureDistinctFromBreach ==
    FailedRun => (exit_code # 0 /\ exit_code # BreachOutcome)

\* C12: load_baseline after a successful save_baseline returns a mapping with exactly
\* the keys of the saved snapshot, each value with the same path, hash, size and mtime.
C12_RoundTrip ==
    (mode = "init" /\ "save" \in ran /\ error = "none" /\ apc \in {"i_saved", "exited"})
    => LET r == load_baseline(baseline_file) IN
         /\ r.outcome = "returned"
         /\ DOMAIN r.data = DOMAIN new_baseline
         /\ \A p \in DOMAIN new_baseline :
              /\ r.data[p].path = new_baseline[p].path
              /\ r.data[p].hash = new_baseline[p].hash
              /\ r.data[p].size = new_baseline[p].size
              /\ r.data[p].mtime = new_baseline[p].mtime

\* A snapshot of two files was saved over a different stored baseline.
C12_TwoEntriesSaved ==
    /\ apc = "i_saved"
    /\ Cardinality(DOMAIN new_baseline) = 2
    /\ baseline_before.kind = "json"
    /\ baseline_before.data # new_baseline
    /\ load_baseline(baseline_file).data = new_baseline

\* C13: a notification whose is_directory flag is set leaves the live event log
\* unchanged (nothing appended, nothing evicted) for each of the three callbacks,
\* and the callback returns.
C13_DirectoryIgnored ==
    [][(delivered' = delivered + 1 /\ Notif(delivered + 1).is_directory)
       => (events' = events /\ wpc' = "idle")]_vars

\* A directory notification has just been handled while the log was full.
C13_DirectoryAtFullLog ==
    /\ delivered > 0
    /\ Notif(delivered).is_directory
    /\ wpc = "idle"
    /\ Len(events) = max_events

\* The kind each callback stands for.
KindFor ==
    ("on_modified" :> "MODIFIED") @@ ("on_created" :> "CREATED") @@ ("on_deleted" :> "DELETED")

\* C14: every regular-file notification appends exactly one entry as the newest
\* element of the log, with the kind of the callback and the path of the
\* notification, also when the previous entry has the same kind and path.
C14_OneEntryPerNotification ==
    [][(/\ delivered' = delivered + 1
        /\ ~Notif(delivered + 1).is_directory
        /\ Notif(delivered + 1).handler \in DOMAIN KindFor)
       => /\ Len(events') = Len(events) + 1
          /\ SubSeq(events', 1, Len(events)) = events
          /\ events'[Len(events')].type = KindFor[Notif(delivered + 1).handler]
          /\ events'[Len(events')].path = Notif(delivered + 1).src_path]_vars

\* The two newest entries have the same kind and path: a repeated notification.
C14_RepeatedNotificationLogged ==
    /\ Len(events) >= 2
    /\ events[Len(events)].type = events[Len(events) - 1].type
    /\ events[Len(events)].path = events[Len(events) - 1].path
    /\ events[Len(events)].time = events[Len(events) - 1].time + 1

\* C15: a render never overlaps a log_event: the reads of one render see the same
\* log, and none sees the log between the append and the eviction (more than
\* max_events entries).
C15_RenderSeesOneLog ==
    mpc = "layout"
    => /\ Len(recent_events) <= total_events
       /\ total_events <= max_events
       /\ modified_count <= max_events
       /\ created_count <= max_events
       /\ deleted_count <= max_events
       /\ modified_count + created_count + deleted_count = total_events

\* C16: once observer.join has returned after a cancellation, no notification is
\* delivered and the log is not mutated any more, and the count the session summary
\* prints is the final length of the log.
C16_QuietAfterJoin ==
    [][/\ (mpc \in {"summary", "done"}
             => events' = events /\ delivered' = delivered /\ wpc' = wpc)
       /\ (mpc' = "done" => summary' = Len(events'))]_vars

\* A cancelled session with notifications delivered after the render began has
\* printed its summary.
C16_CancelledSessionSummarised ==
    /\ mpc = "done"
    /\ observer = "stopped"
    /\ overlap > 0
    /\ summary = Len(events)
    /\ summary > total_events

\* C17: after a crash at any point of save_baseline's write, load_baseline of the
\* same path fails as corrupt or returns in full the snapshot being saved or the
\* baseline stored before, never another mapping.
C17_CrashNeverMisread ==
    apc = "crashed"
    => LET r == load_baseline(baseline_file) IN
         \/ r.outcome = "raised"
         \/ r.data = new_baseline
         \/ r = load_baseline(baseline_before)

\* The process died part-way through the write of a snapshot of two files over a
\* stored baseline, and the file is not readable as a baseline.
C17_CrashedMidWrite ==
    /\ apc = "crashed"
    /\ Cardinality(DOMAIN new_baseline) = 2
    /\ baseline_before.kind = "json"
    /\ baseline_before.data # new_baseline
    /\ load_baseline(baseline_file).outcome = "raised"

\* C18: in the init flow and in the check flow, when discovery yields an empty file
\* list the run aborts before any hashing, and neither a baseline nor an integrity
\* report is written.
C18_EmptyDiscoveryAborts ==
    ("discovery" \in ran /\ error # "config" /\ files_to_scan = << >>)
    => /\ hashed = {}
       /\ "compare" \notin ran
       /\ "report" \notin ran
       /\ report_file = NoReport
       /\ "save" \notin ran
       /\ apc \notin {"exit", "report", "compare"}

\* The snapshot was attempted over a file list with a file that cannot be read.
SnapshotFailed ==
    /\ "hash" \in ran
    /\ \E p \in Range(files_to_scan) : disk[p].state # "ok"

\* C19: if snapshot building fails on a file, the scan is aborted: init writes no
\* baseline and leaves the stored one untouched, check compares nothing and writes
\* no report, and the run ends with a failure outcome.
C19_SnapshotFailureAborts ==
    SnapshotFailed
    => /\ "save" \notin ran
       /\ baseline_file = baseline_before
       /\ "compare" \notin ran
       /\ "report" \notin ran
       /\ report_file = NoReport
       /\ apc \in {"fatal", "i_fatal", "exited"}
       /\ apc = "exited" => exit_code > 0

\* An init run over a stored baseline ended after the second file could not be read.
C19_InitAbortedOnSecondFile ==
    /\ mode = "init"
    /\ apc = "exited"
    /\ SnapshotFailed
    /\ hashed # {}
    /\ baseline_before.kind = "json"
    /\ exit_code = 1

\* C20: animate_hashing_process aborts on the first file that cannot be stat'd,
\* opened or read, swallows no I/O error and never persists a baseline that omits
\* a failing file.
C20_BuilderAbortsOnFailure ==
    /\ printed_errors # {} => hpc = "raised"
    /\ output_baseline # NoReport =>
         \A k \in 1..Len(files_arg) : vdisk[files_arg[k]].state = "ok"

\* C21: when the baseline or the integrity report cannot be written, the failure is
\* fatal and reaches the top-level flow as an error that includes the target path,
\* and the run does not go on to a success or secure outcome.
C21_WriteErrorNamesTarget ==
    error \in WriteErrors
    => /\ NamesTarget(error)
       /\ apc \in {"fatal", "i_fatal", "exited"}
       /\ ~is_secure
       /\ apc = "exited" => exit_code = 1

\* The place of a path in the lexicographic order of the paths.
Rank(p) ==
    CASE p = "a.txt" -> 1
      [] p = "b.txt" -> 2
      [] OTHER       -> 3

\* A list of paths in strictly ascending lexicographic order: sorted, no duplicates.
StrictlyAscending(list) ==
    \A j, k \in 1..Len(list) : j < k => Rank(list[j]) < Rank(list[k])

\* C22: each of the comparison's output lists (modified, created, deleted) is sorted
\* lexicographically by path and has no duplicates; with the set of paths each list
\* holds this fixes the output for given snapshots, whatever the iteration order.
C22_OutputSorted ==
    cpc = "done"
    => /\ StrictlyAscending(cmp.modified)
       /\ StrictlyAscending(cmp.created)
       /\ StrictlyAscending(cmp.deleted)
       /\ Range(cmp.modified) =
            {k \in OldKeys \cap NewKeys : old_baseline[k].hash # new_baseline[k].hash}
       /\ Range(cmp.created) = NewKeys \ OldKeys
       /\ Range(cmp.deleted) = OldKeys \ NewKeys

\* All three files are reported modified, in order.
C22_ThreeModifiedInOrder ==
    /\ cpc = "done"
    /\ cmp.modified = <<"a.txt", "b.txt", "c.txt">>

\* The files of the list that can be stat'd and read.
ReadableFiles == {p \in Range(files_arg) : vdisk[p].state = "ok"}

\* C23: over an unchanging filesystem the snapshot built from a list of paths is
\* determined by the set of paths in the list, not by their order or repetition:
\* one record per distinct path, each with its path field equal to its key.
C23_SnapshotKeyedByPath ==
    /\ \A p \in DOMAIN baseline : baseline[p].path = p
    /\ hpc \in {"save", "returned", "raised"}
       => /\ DOMAIN baseline = ReadableFiles
          /\ \A p \in ReadableFiles :
               baseline[p] = [path |-> p, hash |-> vdisk[p].hash,
                              size |-> vdisk[p].size, mtime |-> vdisk[p].mtime]

\* A list that names b.txt twice around a.txt gave a snapshot of two records.
C23_RepeatedPathOneRecord ==
    /\ hpc = "returned"
    /\ files_arg = <<"b.txt", "a.txt", "b.txt">>
    /\ Cardinality(DOMAIN baseline) = 2
    /\ output_baseline.kind = "json"
    /\ output_baseline.data = baseline

\* The keys of the object a report text holds, and the array stored under a key.
ReportKeys(text) ==
    {text[k] : k \in {j \in 1..Len(text) : j < Len(text) /\ text[j + 1] = "["}}

ArrayOf(text, key) ==
    LET open  == CHOOSE k \in 2..Len(text) : text[k] = "[" /\ text[k - 1] = key
        close == CHOOSE j \in open..Len(text) :
                   text[j] = "]" /\ \A m \in open..(j - 1) : text[m] # "]"
    IN  SubSeq(text, open + 1, close - 1)

\* C24: every check that reaches the comparison writes the integrity report before
\* its outcome is returned, also when the Delta is empty, and the report is an
\* object whose MODIFIED, CREATED and DELETED arrays are the comparison's lists.
C24_ReportWrittenBeforeOutcome ==
    (mode = "check" /\ "compare" \in ran /\ apc \in {"exit", "exited"} /\ error = "none")
    => /\ "report" \in ran
       /\ report_file.kind = "json"
       /\ ReportKeys(report_file.data) = {"MODIFIED", "CREATED", "DELETED"}
       /\ ArrayOf(report_file.data, "MODIFIED") = results.MODIFIED
       /\ ArrayOf(report_file.data, "CREATED") = results.CREATED
       /\ ArrayOf(report_file.data, "DELETED") = results.DELETED

\* A secure check ended with status 0 and left a report of three empty arrays.
C24_SecureRunLeftReport ==
    /\ mode = "check"
    /\ apc = "exited"
    /\ exit_code = 0
    /\ report_file.kind = "json"
    /\ ReportKeys(report_file.data) = {"MODIFIED", "CREATED", "DELETED"}
    /\ ArrayOf(report_file.data, "MODIFIED") = << >>
    /\ ArrayOf(report_file.data, "CREATED") = << >>
    /\ ArrayOf(report_file.data, "DELETED") = << >>

\* C25: the check flow never writes the baseline file: on every path through check
\* the stored baseline is after the run what it was before, and when both --init
\* and --check are given only the init flow runs.
C25_CheckLeavesBaseline ==
    /\ mode = "check" => "save" \notin ran
    /\ (mode = "check" /\ ~raced) => baseline_file = baseline_before
    /\ (args.init /\ args.check)
       => /\ mode = "init"
          /\ load_result = "none"
          /\ "compare" \notin ran
          /\ report_file = NoReport

\* A check that found a breach ended with the stored baseline as it was.
C25_BreachLeftBaseline ==
    /\ mode = "check"
    /\ apc = "exited"
    /\ "report" \in ran
    /\ ~is_secure
    /\ baseline_before.kind = "json"
    /\ baseline_file = baseline_before

\* A save that did not complete: save_baseline raised its write error, or the
\* process died during the write.
SaveFailed ==
    /\ baseline_before.kind = "json"
    /\ (mode = "init" /\ error = "write") \/ apc = "crashed"

\* C26: if save_baseline fails with a write error or is interrupted part-way, the
\* baseline stored before at that path is still there and loads unchanged.
C26_FailedSaveKeepsBaseline ==
    SaveFailed => load_baseline(baseline_file) = load_baseline(baseline_before)

\* C27: a notification of a kind other than modified, created or deleted (a move)
\* leaves the live event log unchanged, for a regular file as for a directory.
C27_OtherKindsIgnored ==
    [][(/\ delivered' = delivered + 1
        /\ Notif(delivered + 1).handler \notin {"on_modified", "on_created", "on_deleted"})
       => (events' = events /\ wpc' = "idle")]_vars

\* A move of a regular file has just been notified while the log held entries.
C27_MoveAfterEntries ==
    /\ delivered > 1
    /\ Notif(delivered).handler = "on_moved"
    /\ ~Notif(delivered).is_directory
    /\ wpc = "idle"
    /\ events # << >>
    /\ events[Len(events)].time = delivered - 1

=========================================================================
